---- MODULE Spec2Model ----
(***************************************************************************)
(* State-machine model of the error-handling demo (my-error-handling-demo):  *)
(*  - the useFetchData hook (hooks/useFetchData.js) as driven by the React  *)
(*    runtime: renders, the passive effect with its cleanup, and the promise *)
(*    chain of every fetch() the effect issues            (Spec);            *)
(*  - App with its ErrorBoundary around UserProfile       (SpecApp);         *)
(*  - UserRegistrationForm with its simulated endpoint    (SpecForm).        *)
(***************************************************************************)
EXTENDS Integers, Sequences, FiniteSets, TLC

VARIABLES
    url,          \* the url argument of the last render of the hook
    data,         \* useState(null)
    loading,      \* useState(true)
    error,        \* useState(null)
    reloadFlag,   \* useState(0), as of the last render
    queue,        \* updates of reloadFlag enqueued by refetch() and not yet rendered
    effectDeps,   \* the [url, reloadFlag] the effect last ran with, NoDeps before the first run
    fetches,      \* every fetch() issued so far, in order; one record per effect run
    mounted,      \* the consumer is mounted
    unhandled,    \* a rejection left the promise chain without a handler
    outcome,      \* what p1 of the current effect's fetch settled with, and on which input, if its handlers acted
    nRefetch,     \* number of refetch() calls made so far
    last,         \* the step taken last: its operation and, for a fetch, its id and result
    \* App.jsx and ErrorBoundary.jsx
    breakUI,      \* App: useState(false)
    rootAlive,    \* the root of the application is rendered (no error reached it uncaught)
    boundary,     \* ErrorBoundary: this.state = { hasError, error, info }
    childFault,   \* what a component under the boundary throws when it is rendered, Null if nothing
    shown,        \* what the last render() of the boundary returned
    view,         \* what the last render of UserProfile returned
    captures,     \* number of getDerivedStateFromError calls on this boundary instance
    \* UserRegistrationForm.jsx
    values,       \* useState({ username: "", email: "", password: "" })
    errors,       \* useState({})
    serverError,  \* useState(null)
    success,      \* useState(false)
    submitting,   \* useState(false)
    inflight      \* the fakeRegister calls that have not resolved, with their arguments

hookVars == <<url, data, loading, error, reloadFlag, queue, effectDeps,
              fetches, mounted, unhandled, outcome, nRefetch>>
appVars == <<breakUI, rootAlive, boundary, childFault, shown, view, captures>>
formVars == <<values, errors, serverError, success, submitting, inflight>>

vars == <<hookVars, last, appVars, formVars>>

----------------------------------------------------------------------------
(* Bounds of the model *)

MaxFetches == 3
MaxRefetch == 2

(* Inputs *)

Urls == {"users/1", "users/2"}
Statuses == {200, 404, 500}
Bodies == {"Ann", "Bob"}

----------------------------------------------------------------------------
(* Values *)

Null == [t |-> "null"]
NoDeps == <<>>

\* new Error(`HTTP ${res.status}`)
HttpError(status) == [t |-> "Error", name |-> "Error", message |-> "HTTP " \o ToString(status)]
\* fetch() rejects with a TypeError when the request cannot be made
NetworkError == [t |-> "Error", name |-> "TypeError", message |-> "Failed to fetch"]
\* res.json() rejects with a SyntaxError when the body is not JSON
DecodeError == [t |-> "Error", name |-> "SyntaxError", message |-> "Unexpected token"]
\* the decoded body of a response for resource u
Payload(u, b) == [t |-> "json", url |-> u, body |-> b]

Fulfilled(v) == [st |-> "fulfilled", val |-> v]
Rejected(e) == [st |-> "rejected", val |-> e]
Undefined == [t |-> "undefined"]
Unsettled == [st |-> "pending", val |-> Undefined, in |-> Undefined]

\* Response.ok
Ok(status) == status >= 200 /\ status <= 299

----------------------------------------------------------------------------
(* The promise chain of one fetch: each stage maps the hook state h =       *)
(* [data, loading, error] and the settled promise p it is attached to, to   *)
(* the state and the promise it returns.                                    *)

\* a handler that decodes every response, whatever its status
ThenResUnchecked(status) == [st |-> "json", val |-> Undefined]

\* .then(res => { if (!res.ok) throw new Error(`HTTP ${res.status}`); return res.json(); })
ThenRes(status) ==
    IF ~Ok(status) THEN Rejected(HttpError(status)) ELSE [st |-> "json", val |-> Undefined]

\* a handler that stores the payload without consulting ignore
ThenDataUnguarded(c, ignore) ==
    IF c.p.st = "fulfilled"
    THEN [h |-> [c.h EXCEPT !.data = c.p.val], p |-> Fulfilled(Undefined)]
    ELSE c

\* .then(data => { if (!ignore) setData(data); })
ThenData(c, ignore) ==
    IF c.p.st = "fulfilled"
    THEN [h |-> IF ~ignore THEN [c.h EXCEPT !.data = c.p.val] ELSE c.h,
          p |-> Fulfilled(Undefined)]
    ELSE c

\* a chain without its .catch
CatchErrMissing(c, ignore) == c

\* .catch(err => { if (!ignore) setError(err); })
CatchErr(c, ignore) ==
    IF c.p.st = "rejected"
    THEN [h |-> IF ~ignore THEN [c.h EXCEPT !.error = c.p.val] ELSE c.h,
          p |-> Fulfilled(Undefined)]
    ELSE c

\* a chain without its .finally
FinallyMissing(c, ignore) == c

\* .finally(() => { if (!ignore) setLoading(false); })
Finally(c, ignore) ==
    [h |-> IF ~ignore THEN [c.h EXCEPT !.loading = FALSE] ELSE c.h,
     p |-> c.p]

\* the three stages that run, in one microtask checkpoint, once p1 has settled
Chain(h, p1, ignore) ==
    Finally(CatchErr(ThenData([h |-> h, p |-> p1], ignore), ignore), ignore)

HookState == [data |-> data, loading |-> loading, error |-> error]

----------------------------------------------------------------------------
(* reloadFlag and refetch *)

\* refetch passing the value of the last render: setReloadFlag(reloadFlag + 1)
RefetchUpdateStale(rendered) == [fn |-> FALSE, val |-> rendered + 1]

\* the argument refetch passes to setReloadFlag: the updater f => f + 1
RefetchUpdate(rendered) == [fn |-> TRUE, val |-> 1]

\* React applies one queued update to the state
ApplyUpdate(f, u) == IF u.fn THEN f + u.val ELSE u.val

RECURSIVE ApplyQueue(_, _)
ApplyQueue(f, q) ==
    IF q = <<>> THEN f ELSE ApplyQueue(ApplyUpdate(f, Head(q)), Tail(q))

----------------------------------------------------------------------------
(* The effect *)

Deps == <<url, reloadFlag>>

\* an effect declared without its dependency array
DepsChangedAlways(prev, next) == TRUE

\* useEffect(..., [url, reloadFlag]): the effect runs after the first render
\* and after every render that changed a dependency
DepsChanged(prev, next) == prev # next

\* an effect that also runs again when the hook holds a failure
EffectPendingOnFailure == mounted /\ (DepsChanged(effectDeps, Deps) \/ error # Null)

\* React runs the effect after a render whose dependencies differ from those
\* of its last run
EffectPending == mounted /\ DepsChanged(effectDeps, Deps)

\* an effect that returns no cleanup
CleanupNone(fs) == fs

\* return () => { ignore = true; }  -- cleanup of the previous run of the effect
Cleanup(fs) ==
    IF fs = <<>> THEN fs ELSE [fs EXCEPT ![Len(fs)].ignore = TRUE]

\* let ignore = false; ... fetch(url)
NewFetch(u, flag) ==
    [url |-> u, flag |-> flag, ignore |-> FALSE, stage |-> "request"]

\* a record of the step taken last
Step(op, id, in) == [op |-> op, id |-> id, in |-> in]
NoInput == [none |-> TRUE]

HookInit ==
    /\ url = "users/1"
    /\ data = Null
    /\ loading = TRUE
    /\ error = Null
    /\ reloadFlag = 0
    /\ queue = <<>>
    /\ effectDeps = NoDeps
    /\ fetches = <<>>
    /\ mounted = TRUE
    /\ unhandled = FALSE
    /\ outcome = Unsettled
    /\ nRefetch = 0

\* an effect that does not call setLoading(true)
RunEffectKeepsLoading ==
    /\ EffectPending
    /\ Len(fetches) < MaxFetches
    /\ error' = Null
    /\ fetches' = Append(Cleanup(fetches), NewFetch(url, reloadFlag))
    /\ effectDeps' = Deps
    /\ outcome' = Unsettled
    /\ last' = Step("effect", Len(fetches) + 1, NoInput)
    /\ UNCHANGED <<url, data, loading, reloadFlag, queue, mounted, unhandled, nRefetch>>
    /\ UNCHANGED <<appVars, formVars>>

\* the body of the effect, preceded by the cleanup of its previous run
RunEffect ==
    /\ EffectPending
    /\ Len(fetches) < MaxFetches
    /\ loading' = TRUE
    /\ error' = Null
    /\ fetches' = Append(Cleanup(fetches), NewFetch(url, reloadFlag))
    /\ effectDeps' = Deps
    /\ outcome' = Unsettled
    /\ last' = Step("effect", Len(fetches) + 1, NoInput)
    /\ UNCHANGED <<url, data, reloadFlag, queue, mounted, unhandled, nRefetch>>
    /\ UNCHANGED <<appVars, formVars>>

\* refetch(): setReloadFlag(f => f + 1)
Refetch ==
    /\ mounted
    /\ nRefetch < MaxRefetch
    /\ queue' = Append(queue, RefetchUpdate(reloadFlag))
    /\ nRefetch' = nRefetch + 1
    /\ last' = Step("refetch", 0, NoInput)
    /\ UNCHANGED <<url, data, loading, error, reloadFlag, effectDeps,
                   fetches, mounted, unhandled, outcome>>
    /\ UNCHANGED <<appVars, formVars>>

\* a render of the consumer, which passes u as the url (UserProfile.jsx:10-12,
\* App.jsx:31-35): the hook is invoked with u and React applies the queued
\* updates of reloadFlag. React flushes pending passive effects before it
\* starts a render.
Render(u) ==
    /\ mounted
    /\ ~EffectPending
    /\ url' = u
    /\ reloadFlag' = ApplyQueue(reloadFlag, queue)
    /\ queue' = <<>>
    /\ last' = Step("render", 0, NoInput)
    /\ UNCHANGED <<data, loading, error, effectDeps, fetches, mounted,
                   unhandled, outcome, nRefetch>>
    /\ UNCHANGED <<appVars, formVars>>

\* the consumer is torn down: the cleanup of the last effect runs
Unmount ==
    /\ mounted
    /\ mounted' = FALSE
    /\ fetches' = IF effectDeps = NoDeps THEN fetches ELSE Cleanup(fetches)
    /\ last' = Step("unmount", 0, NoInput)
    /\ UNCHANGED <<url, data, loading, error, reloadFlag, queue,
                   effectDeps, unhandled, outcome, nRefetch>>
    /\ UNCHANGED <<appVars, formVars>>

\* p1 of fetch i has settled with p, on input in: the rest of the chain runs
Settle(i, p, in) ==
    LET c == Chain(HookState, p, fetches[i].ignore) IN
    /\ data' = c.h.data
    /\ loading' = c.h.loading
    /\ error' = c.h.error
    /\ unhandled' = (unhandled \/ c.p.st = "rejected")
    /\ outcome' = IF fetches[i].ignore THEN outcome ELSE [st |-> p.st, val |-> p.val, in |-> in]
    /\ fetches' = [fetches EXCEPT ![i].stage = "settled"]
    /\ last' = Step("settle", i, [st |-> p.st])

\* fetch(url) settles: a network failure, or a response with some status
Respond(i) ==
    /\ i \in 1..Len(fetches)
    /\ fetches[i].stage = "request"
    /\ \/ Settle(i, Rejected(NetworkError), [network |-> "down"])
       \/ \E s \in Statuses :
            LET p1 == ThenRes(s) IN
            IF p1.st = "rejected"
            THEN Settle(i, p1, [status |-> s])
            ELSE /\ fetches' = [fetches EXCEPT ![i].stage = "decoding"]
                 /\ last' = Step("response", i, [status |-> s])
                 /\ UNCHANGED <<data, loading, error, unhandled, outcome>>
    /\ UNCHANGED <<url, reloadFlag, queue, effectDeps, mounted, nRefetch>>
    /\ UNCHANGED <<appVars, formVars>>

\* res.json() settles: the decoded body, or a decode failure
Decoded(i) ==
    /\ i \in 1..Len(fetches)
    /\ fetches[i].stage = "decoding"
    /\ \/ \E b \in Bodies : Settle(i, Fulfilled(Payload(fetches[i].url, b)), [body |-> b])
       \/ Settle(i, Rejected(DecodeError), [body |-> "not JSON"])
    /\ UNCHANGED <<url, reloadFlag, queue, effectDeps, mounted, nRefetch>>
    /\ UNCHANGED <<appVars, formVars>>

Next ==
    \/ RunEffect
    \/ Refetch
    \/ \E u \in Urls : Render(u)
    \/ Unmount
    \/ \E i \in 1..MaxFetches : Respond(i)
    \/ \E i \in 1..MaxFetches : Decoded(i)


----------------------------------------------------------------------------
(* Properties *)

Latest == Len(fetches)

Outstanding(i) == fetches[i].stage # "settled"

\* fetch i settles in this step
Settles(i) == Outstanding(i) /\ fetches'[i].stage = "settled"

\* data, loading and error are what the settled promise p leaves behind
Reflects(p) ==
    CASE p.st = "fulfilled" -> data = p.val /\ error = Null /\ ~loading
      [] p.st = "rejected" -> error = p.val /\ ~loading
      [] OTHER -> loading

(* C1: stale-result rejection. A fetch that is not the most recently       *)
(* started one changes none of data, error and loading when it settles,    *)
(* whether it succeeds or fails; and data, error and loading are always    *)
(* those left by the most recently started fetch (loading while it has not *)
(* settled), whatever older fetches settle after it.                       *)
C1_StaleResultRejected ==
    /\ [](Reflects(outcome))
    /\ [][\A i \in 1..Latest :
            (Settles(i) /\ i # Latest) => UNCHANGED <<data, error, loading>>]_vars

\* generation 1 succeeds late, after generation 2 for the same url has succeeded
C1_Witness ==
    /\ Latest = 2
    /\ last = Step("settle", 1, [st |-> "fulfilled"])
    /\ fetches[1].url = fetches[2].url
    /\ fetches[2].stage = "settled"
    /\ outcome.st = "fulfilled"
    /\ data = outcome.val

(* C2: data and error are never both populated.                            *)
C2_ValueFailureExclusive == ~(data # Null /\ error # Null)

(* C3: while loading is true neither a previous result nor a previous      *)
(* error is exposed: every start of a fetch leaves data and error cleared. *)
C3_PendingExposesNothing == loading => (data = Null /\ error = Null)

(* C4, as claimed: no (url, reloadFlag) pair has two fetches issued for    *)
(* it, and no two outstanding fetches have the same reloadFlag.            *)
C4_OneFetchPerPair ==
    \A i, j \in 1..Latest :
        i # j =>
            /\ <<fetches[i].url, fetches[i].flag>> # <<fetches[j].url, fetches[j].flag>>
            /\ (Outstanding(i) /\ Outstanding(j)) => fetches[i].flag # fetches[j].flag

(* C4, amended: one fetch per run of the effect. Two consecutive fetches   *)
(* differ in (url, reloadFlag), every fetch but the most recently started  *)
(* one is superseded (ignore = true), so at most one fetch that is not     *)
(* superseded is outstanding, and every step issues at most one fetch.     *)
C4_OneFetchPerEffectRun ==
    /\ [](\A i \in 1..Latest :
            /\ i < Latest => fetches[i].ignore
            /\ i < Latest =>
                 <<fetches[i].url, fetches[i].flag>> #
                 <<fetches[i + 1].url, fetches[i + 1].flag>>)
    /\ [][Len(fetches') <= Len(fetches) + 1]_vars

\* the url went away and came back: (url, reloadFlag) is fetched a second
\* time while its first fetch is still outstanding
C4_Witness ==
    /\ Latest = 3
    /\ fetches[1].url = fetches[3].url
    /\ fetches[1].flag = fetches[3].flag
    /\ Outstanding(1)
    /\ Outstanding(3)
    /\ fetches[1].ignore
    /\ ~fetches[3].ignore

(* C5: a render with an unchanged url and no refetch() starts no fetch:    *)
(* a fetch is issued only on mount or when url or reloadFlag differ from   *)
(* those of the previous run of the effect, and a render that changes      *)
(* neither leaves no effect to run.                                        *)
C5_NoFetchOnRerender ==
    /\ [][Len(fetches') # Len(fetches) =>
            (effectDeps = NoDeps \/ effectDeps[1] # url \/ effectDeps[2] # reloadFlag)]_vars
    /\ [][(effectDeps = Deps /\ url' = url /\ reloadFlag' = reloadFlag) =>
            (Len(fetches') = Len(fetches) /\ effectDeps' = <<url', reloadFlag'>>)]_vars

\* the consumer rendered again while the only fetch is pending
C5_Witness ==
    /\ last = Step("render", 0, NoInput)
    /\ Latest = 1
    /\ effectDeps = Deps
    /\ queue = <<>>
    /\ loading
    /\ fetches[1].stage = "request"

(* C6: reloadFlag never decreases and every refetch() raises it by exactly *)
(* one, also when several refetch() calls are batched before the effect    *)
(* re-runs: rendered and queued updates together always amount to the      *)
(* number of refetch() calls. Once the updates are rendered and the effect *)
(* has run, the most recent fetch is one for the current url and the       *)
(* generation reached by the last refetch().                               *)
C6_GenerationCountsRefetches ==
    /\ [](ApplyQueue(reloadFlag, queue) = nRefetch)
    /\ [][reloadFlag' >= reloadFlag]_vars
    /\ []((mounted /\ ~EffectPending /\ queue = <<>>) =>
            /\ Latest > 0
            /\ fetches[Latest].flag = nRefetch
            /\ fetches[Latest].url = url
            /\ ~fetches[Latest].ignore)

\* two refetch() calls were made before the effect re-ran
C6_Witness ==
    /\ nRefetch = 2
    /\ reloadFlag = 2
    /\ Latest = 2
    /\ fetches[1].flag = 0
    /\ fetches[2].flag = 2

NonOkStatuses == {s \in Statuses : ~Ok(s)}

(* C7: a response with a non-success status s to a fetch that has not been *)
(* superseded leaves error set to an Error whose message is "HTTP s" and   *)
(* loading false; the step leaves data as it was, and only a response      *)
(* whose status is ok goes on to have its body decoded.                    *)
C7_HttpStatusFails ==
    /\ [](\A s \in NonOkStatuses :
            outcome.in = [status |-> s] =>
                /\ error # Null
                /\ error.message = "HTTP " \o ToString(s)
                /\ ~loading)
    /\ [](last.op = "response" => Ok(last.in.status))
    /\ [][(outcome' # outcome /\ \E s \in NonOkStatuses : outcome'.in = [status |-> s]) =>
            /\ data' = data
            /\ fetches[Latest].stage = "request"
            /\ fetches'[Latest].stage = "settled"]_vars

\* the current fetch was answered 404
C7_Witness ==
    /\ outcome.in = [status |-> 404]
    /\ error.message = "HTTP 404"
    /\ ~loading
    /\ data = Null

FailureInputs ==
    {[network |-> "down"], [body |-> "not JSON"]} \cup {[status |-> s] : s \in NonOkStatuses}

(* C8: a rejected request, a non-2xx response and a decode failure of a    *)
(* fetch that has not been superseded all end in the same Failed state:    *)
(* error holds the failure, loading is false, and no rejection leaves the  *)
(* promise chain unhandled.                                                *)
C8_FailuresAbsorbed ==
    /\ ~unhandled
    /\ outcome.in \in FailureInputs =>
            /\ outcome.st = "rejected"
            /\ error = outcome.val
            /\ error.t = "Error"
            /\ ~loading

\* the body of the current fetch's response was not JSON
C8_Witness ==
    /\ outcome.in = [body |-> "not JSON"]
    /\ error = DecodeError
    /\ ~loading
    /\ ~unhandled

(* C9: an ok response whose body decodes to v, for a fetch that has not    *)
(* been superseded, leaves data = v, error = null and loading = false.     *)
C9_SuccessStoresPayload ==
    \A b \in Bodies :
        outcome.in = [body |-> b] =>
            /\ data = Payload(fetches[Latest].url, b)
            /\ error = Null
            /\ ~loading

\* users/1 answered with the body of Ann
C9_Witness ==
    /\ outcome.in = [body |-> "Ann"]
    /\ data = Payload("users/1", "Ann")
    /\ error = Null
    /\ ~loading

(* C10: no terminal state while mounted. In every state of a mounted hook  *)
(* refetch() can be called, the consumer can render any url once the due   *)
(* effect has run, a queued refetch() or a changed url makes the effect    *)
(* due at the next render, and a due effect can run; each run puts the hook *)
(* in Pending with a new fetch issued for the current url. (The two        *)
(* bounds of the model are the only limits on refetch() and on the effect.) *)
C10_AlwaysRetryable ==
    /\ []((mounted /\ nRefetch < MaxRefetch) => ENABLED Refetch)
    /\ []((mounted /\ ~EffectPending) => \A u \in Urls : ENABLED Render(u))
    /\ []((mounted /\ queue # <<>>) =>
            DepsChanged(<<url, reloadFlag>>, <<url, ApplyQueue(reloadFlag, queue)>>))
    /\ []((EffectPending /\ Latest < MaxFetches) => ENABLED RunEffect)
    /\ [][(url' # url \/ reloadFlag' # reloadFlag) => EffectPending']_vars
    /\ [][Len(fetches') > Len(fetches) =>
            /\ loading'
            /\ error' = Null
            /\ fetches'[Len(fetches')] = NewFetch(url, reloadFlag)]_vars

\* a refetch() after a failure put the hook back in Pending
C10_Witness ==
    /\ last = Step("effect", 2, NoInput)
    /\ fetches[1].stage = "settled"
    /\ fetches[1].url = fetches[2].url
    /\ fetches[2].flag = 1
    /\ data = Null
    /\ loading

----------------------------------------------------------------------------
(* App and its ErrorBoundary (App.jsx, components/ErrorBoundary.jsx)        *)

MaxCaptures == 2
MaxAppFetches == 2

\* new Error("Simulated render crash!")
SimulatedCrash == [t |-> "Error", name |-> "Error", message |-> "Simulated render crash!"]

\* what a component rendered under the boundary may throw
ChildFaults == {[t |-> "Error", name |-> "Error", message |-> "first"],
                [t |-> "Error", name |-> "Error", message |-> "second"]}

\* the second argument React passes to componentDidCatch
ErrorInfo == [componentStack |-> "at Child"]

\* this.state = { hasError: false, error: null, info: null }
BoundaryInit == [hasError |-> FALSE, error |-> Null, info |-> Null]

\* React merges a partial state into this.state
SetState(st, partial) ==
    [f \in DOMAIN st |-> IF f \in DOMAIN partial THEN partial[f] ELSE st[f]]

\* a boundary that flags the crash and forgets what was thrown
GetDerivedStateFromErrorDropsError(e) == [hasError |-> TRUE]

\* a boundary that records what was thrown and forgets to flag the crash
GetDerivedStateFromErrorUnflagged(e) == [error |-> e]

\* static getDerivedStateFromError(error) { return { hasError: true, error }; }
GetDerivedStateFromError(e) == [hasError |-> TRUE, error |-> e]

\* a boundary that recovers by itself once the crash is logged
ComponentDidCatchRecovers(e, info) == [hasError |-> FALSE, info |-> info]

\* componentDidCatch(error, info) { this.setState({ info }); }
ComponentDidCatch(e, info) == [info |-> info]

\* a render() that returns its children whatever the state
BoundaryRenderUnguarded(st) == "children"

\* render() { if (this.state.hasError) return <fallback/>; return this.props.children; }
BoundaryRender(st) == IF st.hasError THEN "fallback" ELSE "children"

\* a UserProfile that rethrows the failure of the fetch while it renders
UserProfileViewThrows(h) ==
    IF h.loading THEN "loading"
    ELSE IF h.error # Null THEN "throw"
    ELSE IF h.data = Null THEN "nothing"
    ELSE "profile"

\* a UserProfile that looks at data before it looks at error
UserProfileViewDataFirst(h) ==
    IF h.loading THEN "loading"
    ELSE IF h.data # Null THEN "profile"
    ELSE IF h.error # Null THEN "error"
    ELSE "nothing"

\* what UserProfile returns for the state h of its hook
UserProfileView(h) ==
    IF h.loading THEN "loading"
    ELSE IF h.error # Null THEN "error"
    ELSE IF h.data = Null THEN "nothing"
    ELSE "profile"

AppInit ==
    /\ breakUI = FALSE
    /\ rootAlive = TRUE
    /\ boundary = BoundaryInit
    /\ childFault = Null
    /\ shown = "children"
    /\ view = "loading"
    /\ captures = 0

\* an unmount that leaves the effect without its cleanup
TornDownNoCleanup(fs) == fs

\* the subtree under the boundary is unmounted: the cleanup of the effect runs
TornDown(fs) == IF mounted /\ effectDeps # NoDeps THEN Cleanup(fs) ELSE fs

\* onClick={() => setBreakUI(true)}; the button is one of the boundary's children
SimulateRenderCrash ==
    /\ rootAlive
    /\ shown = "children"
    /\ ~breakUI
    /\ breakUI' = TRUE
    /\ last' = Step("setBreakUI", 0, NoInput)
    /\ UNCHANGED <<hookVars, rootAlive, boundary, childFault, shown,
                   view, captures, formVars>>

\* a component under the boundary starts to throw e when it is rendered
BreakChild(e) ==
    /\ rootAlive
    /\ childFault # e
    /\ childFault' = e
    /\ last' = Step("breakChild", 0, NoInput)
    /\ UNCHANGED <<hookVars, breakUI, rootAlive, boundary, shown,
                   view, captures, formVars>>

\* the effect of the hook that UserProfile calls
ProfileEffect ==
    /\ Len(fetches) < MaxAppFetches
    /\ RunEffect

\* onClick={refetch} of the Retry button, which UserProfile renders with a failure
Retry ==
    /\ rootAlive
    /\ shown = "children"
    /\ view = "error"
    /\ Refetch

\* React renders App with userId selecting u. App throws if breakUI is set;
\* otherwise the boundary renders, and with it its children unless it returns
\* the fallback. What a child throws reaches getDerivedStateFromError of the
\* boundary, which is rendered again with the derived state; the children are
\* unmounted, and in the commit of that same render React calls
\* componentDidCatch, whose setState({ info }) is rendered before anything
\* else happens. What App throws has no boundary above it: React unmounts
\* the whole root.
RenderApp(u) ==
    /\ rootAlive
    /\ ~EffectPending
    /\ IF breakUI
       THEN /\ rootAlive' = FALSE
            /\ shown' = "nothing"
            /\ view' = "nothing"
            /\ mounted' = FALSE
            /\ fetches' = TornDown(fetches)
            /\ last' = Step("render", 0, [threw |-> SimulatedCrash, at |-> "App"])
            /\ UNCHANGED <<url, reloadFlag, queue, boundary, captures>>
       ELSE IF BoundaryRender(boundary) = "fallback"
       THEN /\ u = url
            /\ shown' = "fallback"
            /\ last' = Step("render", 0, [returned |-> "fallback"])
            /\ UNCHANGED <<url, reloadFlag, queue, mounted, fetches, rootAlive,
                           boundary, view, captures>>
       ELSE LET v == UserProfileView(HookState)
                thrown == IF childFault # Null THEN childFault
                          ELSE IF v = "throw" THEN error
                          ELSE Null
            IN  IF thrown # Null
                THEN /\ captures < MaxCaptures
                     /\ boundary' = SetState(SetState(boundary, GetDerivedStateFromError(thrown)),
                                           ComponentDidCatch(thrown, ErrorInfo))
                     /\ captures' = captures + 1
                     /\ shown' = BoundaryRender(boundary')
                     /\ view' = "nothing"
                     /\ mounted' = FALSE
                     /\ fetches' = TornDown(fetches)
                     /\ last' = Step("render", 0, [threw |-> thrown, at |-> "child"])
                     /\ UNCHANGED <<url, reloadFlag, queue, rootAlive>>
                ELSE /\ url' = u
                     /\ reloadFlag' = ApplyQueue(reloadFlag, queue)
                     /\ queue' = <<>>
                     /\ shown' = "children"
                     /\ view' = v
                     /\ last' = Step("render", 0, [returned |-> "children"])
                     /\ UNCHANGED <<mounted, fetches, rootAlive, boundary, captures>>
    /\ UNCHANGED <<data, loading, error, effectDeps, unhandled, outcome, nRefetch,
                   breakUI, childFault, formVars>>

----------------------------------------------------------------------------
(* UserRegistrationForm (components/UserRegistrationForm.jsx)               *)
(* email and password are sequences of UTF-16 code units, which is what a   *)
(* JavaScript string is, as the code matches a pattern against the one and  *)
(* takes the length of the other; username is only tested for emptiness    *)
(* and compared with two literals.                                         *)

Fields == {"username", "email", "password"}

\* e.target.value, for each of the three inputs
Usernames == {"", "ann", "testfail", "serverfail"}
\* "", "a@b", " @b.c", "a@b.c" with a no-break space before the dot, "a@b.c"
Emails == {<<>>, <<97, 64, 98>>, <<32, 64, 98, 46, 99>>, <<97, 64, 98, 160, 46, 99>>,
           <<97, 64, 98, 46, 99>>}
\* "", "12345", "123456"
Passwords == {<<>>, <<49, 50, 51, 52, 53>>, <<49, 50, 51, 52, 53, 54>>}

Inputs(name) ==
    CASE name = "username" -> Usernames
      [] name = "email" -> Emails
      [] OTHER -> Passwords

\* a string shown to the user
Msg(s) == [t |-> "string", v |-> s]

\* { username: "", email: "", password: "" }
NoValues == [username |-> "", email |-> <<>>, password |-> <<>>]

\* {}
NoErrors == [f \in {} |-> Null]

\* \s
IsSpace(c) ==
    \/ c \in 9..13                \* \t \n \v \f \r
    \/ c \in {32, 160, 5760}      \* space, no-break space, ogham space mark
    \/ c \in 8192..8202           \* U+2000 .. U+200A
    \/ c \in {8232, 8233}         \* line and paragraph separator
    \/ c \in {8239, 8287, 12288}  \* narrow no-break, medium mathematical, ideographic space
    \/ c = 65279                  \* U+FEFF

\* /\S+@\S+\.\S+/.test(s): somewhere in s, a non-blank run, "@", a non-blank
\* run, "." and a non-blank character
EmailPattern(s) ==
    \E p \in 1..Len(s), q \in 1..Len(s) :
        /\ s[p] = 64
        /\ s[q] = 46
        /\ p >= 2
        /\ ~IsSpace(s[p - 1])
        /\ q >= p + 2
        /\ \A k \in (p + 1)..(q - 1) : ~IsSpace(s[k])
        /\ q < Len(s)
        /\ ~IsSpace(s[q + 1])

ValidationMessage(f) ==
    CASE f = "username" -> Msg("Username required")
      [] f = "email" -> Msg("Valid email required")
      [] OTHER -> Msg("Password too short")

\* a validate that accepts any non-empty password
ValidateAnyPassword(v) ==
    LET failing == {f \in Fields :
            \/ f = "username" /\ v.username = ""
            \/ f = "email" /\ (v.email = <<>> \/ ~EmailPattern(v.email))
            \/ f = "password" /\ v.password = <<>>}
    IN  [f \in failing |-> ValidationMessage(f)]

\* validate(): the object errs, which has a key for each field that fails
Validate(v) ==
    LET failing == {f \in Fields :
            \/ f = "username" /\ v.username = ""
            \/ f = "email" /\ (v.email = <<>> \/ ~EmailPattern(v.email))
            \/ f = "password" /\ (v.password = <<>> \/ Len(v.password) < 6)}
    IN  [f \in failing |-> ValidationMessage(f)]

\* an endpoint that does not single out "serverfail"
FakeRegisterNoServerFail(v) ==
    IF v.username = "" \/ v.email = <<>> \/ v.password = <<>>
    THEN [status |-> 400, message |-> "All fields required."]
    ELSE IF v.username = "testfail"
    THEN [status |-> 400, message |-> "Username not allowed."]
    ELSE [status |-> 200, message |-> "", user |-> [username |-> v.username, email |-> v.email]]

\* fakeRegister({ username, email, password }), once its delay has elapsed
FakeRegister(v) ==
    IF v.username = "" \/ v.email = <<>> \/ v.password = <<>>
    THEN [status |-> 400, message |-> "All fields required."]
    ELSE IF v.username = "testfail"
    THEN [status |-> 400, message |-> "Username not allowed."]
    ELSE IF v.username = "serverfail"
    THEN [status |-> 500, message |-> "Server error. Try again."]
    ELSE [status |-> 200, message |-> "", user |-> [username |-> v.username, email |-> v.email]]

FormInit ==
    /\ values = NoValues
    /\ errors = NoErrors
    /\ serverError = Null
    /\ success = FALSE
    /\ submitting = FALSE
    /\ inflight = <<>>

\* a handleChange that starts the errors afresh: setErrors({ [name]: null })
HandleChangeDropsErrors(name, value) ==
    /\ value \in Inputs(name)
    /\ value # values[name]
    /\ values' = [values EXCEPT ![name] = value]
    /\ errors' = [f \in {name} |-> Null]
    /\ serverError' = Null
    /\ last' = Step("change", 0, [name |-> name])
    /\ UNCHANGED <<success, submitting, inflight, hookVars, appVars>>

\* handleChange: onChange of the input called name, whose text becomes value
HandleChange(name, value) ==
    /\ value \in Inputs(name)
    /\ value # values[name]
    /\ values' = [values EXCEPT ![name] = value]
    /\ errors' = [f \in DOMAIN errors \cup {name} |-> IF f = name THEN Null ELSE errors[f]]
    /\ serverError' = Null
    /\ last' = Step("change", 0, [name |-> name])
    /\ UNCHANGED <<success, submitting, inflight, hookVars, appVars>>

\* handleSubmit up to its await. The form is submitted through its submit
\* button, which is disabled while submitting.
HandleSubmit ==
    /\ ~submitting
    /\ LET errs == Validate(values) IN
       IF DOMAIN errs # {}
       THEN /\ errors' = errs
            /\ last' = Step("submit", 0, [sent |-> FALSE])
            /\ UNCHANGED <<values, serverError, success, submitting, inflight>>
       ELSE /\ submitting' = TRUE
            /\ serverError' = Null
            /\ success' = FALSE
            /\ inflight' = Append(inflight, values)
            /\ last' = Step("submit", 0, [sent |-> TRUE])
            /\ UNCHANGED <<values, errors>>
    /\ UNCHANGED <<hookVars, appVars>>

\* a handleSubmit that leaves the button disabled when the server refuses
RegisteredStaysSubmitting ==
    /\ inflight # <<>>
    /\ LET resp == FakeRegister(Head(inflight)) IN
       /\ IF resp.status # 200
          THEN /\ serverError' = Msg(resp.message)
               /\ UNCHANGED <<success, values, submitting>>
          ELSE /\ submitting' = FALSE
               /\ success' = TRUE
               /\ values' = NoValues
               /\ UNCHANGED serverError
       /\ last' = Step("registered", 0, [sent |-> Head(inflight), status |-> resp.status, fields |-> values])
    /\ inflight' = Tail(inflight)
    /\ UNCHANGED <<errors, hookVars, appVars>>

\* a handleSubmit that keeps what is in the fields after a registration
RegisteredKeepsValues ==
    /\ inflight # <<>>
    /\ LET resp == FakeRegister(Head(inflight)) IN
       /\ submitting' = FALSE
       /\ IF resp.status # 200
          THEN /\ serverError' = Msg(resp.message)
               /\ UNCHANGED <<success, values>>
          ELSE /\ success' = TRUE
               /\ UNCHANGED <<serverError, values>>
       /\ last' = Step("registered", 0, [sent |-> Head(inflight), status |-> resp.status, fields |-> values])
    /\ inflight' = Tail(inflight)
    /\ UNCHANGED <<errors, hookVars, appVars>>

\* handleSubmit after its await: fakeRegister(values) has resolved with resp
Registered ==
    /\ inflight # <<>>
    /\ LET resp == FakeRegister(Head(inflight)) IN
       /\ submitting' = FALSE
       /\ IF resp.status # 200
          THEN /\ serverError' = Msg(resp.message)
               /\ UNCHANGED <<success, values>>
          ELSE /\ success' = TRUE
               /\ values' = NoValues
               /\ UNCHANGED serverError
       /\ last' = Step("registered", 0, [sent |-> Head(inflight), status |-> resp.status, fields |-> values])
    /\ inflight' = Tail(inflight)
    /\ UNCHANGED <<errors, hookVars, appVars>>

----------------------------------------------------------------------------
(* Specifications *)

Init ==
    /\ HookInit
    /\ AppInit
    /\ FormInit
    /\ last = Step("init", 0, NoInput)

\* onClick={() => window.location.reload()} of the fallback: the page, and with
\* it every component, starts again
Reload ==
    /\ rootAlive
    /\ shown = "fallback"
    /\ url' = "users/1"
    /\ data' = Null
    /\ loading' = TRUE
    /\ error' = Null
    /\ reloadFlag' = 0
    /\ queue' = <<>>
    /\ effectDeps' = NoDeps
    /\ fetches' = <<>>
    /\ mounted' = TRUE
    /\ unhandled' = FALSE
    /\ outcome' = Unsettled
    /\ nRefetch' = 0
    /\ breakUI' = FALSE
    /\ rootAlive' = TRUE
    /\ boundary' = BoundaryInit
    /\ childFault' = Null
    /\ shown' = "children"
    /\ view' = "loading"
    /\ captures' = 0
    /\ values' = NoValues
    /\ errors' = NoErrors
    /\ serverError' = Null
    /\ success' = FALSE
    /\ submitting' = FALSE
    /\ inflight' = <<>>
    /\ last' = Step("reload", 0, NoInput)

\* the hook alone, under any consumer
Spec == Init /\ [][Next]_vars

NextApp ==
    \/ ProfileEffect
    \/ Retry
    \/ \E u \in Urls : RenderApp(u)
    \/ \E i \in 1..MaxFetches : Respond(i)
    \/ \E i \in 1..MaxFetches : Decoded(i)
    \/ SimulateRenderCrash
    \/ \E e \in ChildFaults : BreakChild(e)
    \/ Reload

\* App: the boundary around UserProfile and its hook
SpecApp == Init /\ [][NextApp]_vars

NextForm ==
    \/ \E name \in Fields : \E value \in Inputs(name) : HandleChange(name, value)
    \/ HandleSubmit
    \/ Registered

\* the registration form
SpecForm == Init /\ [][NextForm]_vars

\* the delay of fakeRegister elapses: a call that was made resolves
SpecFormFair == SpecForm /\ WF_vars(Registered)

----------------------------------------------------------------------------
(* Properties of App and its ErrorBoundary, under SpecApp *)

(* C11: clicking "Simulate Render Crash" (breakUI set to true) makes the   *)
(* ErrorBoundary capture the crash: once App has been rendered with        *)
(* breakUI set, the boundary has hasError = true and shows its fallback,   *)
(* and the application is still up.                                       *)
C11_SimulatedCrashCaptured ==
    (breakUI /\ last.op = "render") =>
        (boundary.hasError /\ shown = "fallback" /\ rootAlive)

(* C12: capture is sticky. Once the boundary has captured, hasError is     *)
(* true, every render() of the boundary returns the fallback and its       *)
(* children stay unmounted; and no step but a reload of the page takes     *)
(* hasError from true to false.                                            *)
C12_CaptureSticky ==
    /\ [](captures >= 1 => boundary.hasError)
    /\ [](boundary.hasError => (shown = "fallback" /\ ~mounted))
    /\ [][(boundary.hasError /\ ~boundary'.hasError) => last'.op = "reload"]_vars

\* the boundary has captured and a later render of App has returned the
\* fallback again
C12_Witness ==
    /\ boundary.hasError
    /\ boundary.info # Null
    /\ last = Step("render", 0, [returned |-> "fallback"])

(* C13: when a component under the boundary throws while it renders and    *)
(* hasError is false, the boundary catches it: in that very render         *)
(* hasError becomes true, error is the thrown value, the fallback is what  *)
(* the boundary returns, and the root of the application stays rendered;   *)
(* the fallback stays for as long as hasError is true.                     *)
C13_ChildCrashCaptured ==
    /\ [][(rootAlive /\ ~breakUI /\ ~boundary.hasError /\ childFault # Null
             /\ last'.op = "render")
          => (/\ boundary'.hasError
              /\ boundary'.error = childFault
              /\ shown' = "fallback"
              /\ rootAlive')]_vars
    /\ []((boundary.hasError /\ boundary.error \in ChildFaults) =>
              (shown = "fallback" /\ rootAlive))

\* the render that has just ended is one in which a child threw
C13_Witness ==
    /\ boundary.hasError
    /\ boundary.error \in ChildFaults
    /\ last = Step("render", 0, [threw |-> boundary.error, at |-> "child"])
    /\ rootAlive

(* C14: a boundary instance captures at most once. After the capture,      *)
(* whatever its children would throw next, hasError, the recorded error    *)
(* and the fallback output stay as the first capture left them, until the  *)
(* page is reloaded.                                                       *)
C14_CaptureOnce ==
    /\ [](captures <= 1)
    /\ [][(boundary.hasError /\ last'.op # "reload")
          => (/\ boundary'.hasError
              /\ boundary'.error = boundary.error
              /\ shown' = "fallback"
              /\ captures' = captures)]_vars

\* after the capture of one fault a child is set to throw another one, and a
\* render of App has returned the fallback
C14_Witness ==
    /\ boundary.hasError
    /\ childFault \in ChildFaults
    /\ childFault # boundary.error
    /\ last = Step("render", 0, [returned |-> "fallback"])

\* the failures the promise chain of a fetch can end in
FetchFailures ==
    {NetworkError, DecodeError} \cup {HttpError(s) : s \in {t \in Statuses : ~Ok(t)}}

(* C15: a failure raised outside the render path never reaches the         *)
(* boundary. What the boundary holds is only ever what a child threw while *)
(* rendering, never the failure of a fetch; a failed fetch ends in the     *)
(* error of the hook, with hasError still false, and UserProfile renders   *)
(* it as one of the boundary's children.                                   *)
C15_OnlyRenderFailuresCaptured ==
    /\ boundary.hasError => boundary.error \in ChildFaults
    /\ boundary.error \notin FetchFailures
    /\ (outcome.st = "rejected" /\ mounted) =>
           (error = outcome.val /\ error \in FetchFailures /\ ~boundary.hasError)
    /\ view = "error" => (~boundary.hasError /\ shown = "children")

\* a fetch has failed and UserProfile has been rendered with the failure
C15_Witness ==
    /\ outcome.st = "rejected"
    /\ error \in FetchFailures
    /\ last = Step("render", 0, [returned |-> "children"])
    /\ view = "error"
    /\ ~boundary.hasError

----------------------------------------------------------------------------
(* Properties of UserRegistrationForm, under SpecForm *)

\* the three conditions on the fields
PassesValidation(v) ==
    /\ v.username # ""
    /\ EmailPattern(v.email)
    /\ Len(v.password) >= 6

FailingFields(v) ==
    {f \in Fields :
        \/ f = "username" /\ v.username = ""
        \/ f = "email" /\ ~EmailPattern(v.email)
        \/ f = "password" /\ Len(v.password) < 6}

(* C16: client validation precedes the request. A submission calls         *)
(* fakeRegister, with the values of the fields, only when username is not  *)
(* empty, email matches \S+@\S+\.\S+ and password has 6 characters or      *)
(* more; otherwise it sets errors to a message for exactly the failing     *)
(* fields, issues no request and leaves values, serverError, success and   *)
(* submitting as they were. No request in flight carries values that fail  *)
(* validation.                                                             *)
C16_ValidatedBeforeRequest ==
    /\ [](\A i \in 1..Len(inflight) : PassesValidation(inflight[i]))
    /\ [][last'.op = "submit" =>
            IF PassesValidation(values)
            THEN inflight' = Append(inflight, values)
            ELSE /\ inflight' = inflight
                 /\ DOMAIN errors' = FailingFields(values)
                 /\ \A f \in DOMAIN errors' : errors'[f] = ValidationMessage(f)
                 /\ UNCHANGED <<values, serverError, success, submitting>>]_vars

\* a submission refused for its email and its password only
C16_Witness ==
    /\ last = Step("submit", 0, [sent |-> FALSE])
    /\ DOMAIN errors = {"email", "password"}
    /\ values.username # ""
    /\ values.password # <<>>
    /\ inflight = <<>>

(* C17: the outcome of a validated submission is a function of the         *)
(* username it was submitted with: "testfail" gives 400 and serverError    *)
(* "Username not allowed.", "serverfail" gives 500 and serverError         *)
(* "Server error. Try again.", any other username gives 200, success =     *)
(* true and serverError = null.                                            *)
C17_OutcomeByUsername ==
    last.op = "registered" =>
        CASE last.in.sent.username = "testfail" ->
                /\ last.in.status = 400
                /\ serverError = Msg("Username not allowed.")
                /\ ~success
          [] last.in.sent.username = "serverfail" ->
                /\ last.in.status = 500
                /\ serverError = Msg("Server error. Try again.")
                /\ ~success
          [] OTHER ->
                /\ last.in.status = 200
                /\ success
                /\ serverError = Null

\* the response to a submission as "serverfail" has been handled, the username
\* in the field having been changed in the meantime
C17_Witness ==
    /\ last.op = "registered"
    /\ last.in.sent.username = "serverfail"
    /\ last.in.fields.username = "ann"
    /\ serverError = Msg("Server error. Try again.")

(* C18: submitting is true exactly while a validated submission is being   *)
(* processed, from the call of fakeRegister until its response has been    *)
(* handled, and at most one is; and, fakeRegister always resolving,        *)
(* submitting returns to false after every submission.                     *)
C18_SubmittingWhileProcessing ==
    /\ [](submitting <=> inflight # <<>>)
    /\ [](Len(inflight) <= 1)
    /\ submitting ~> ~submitting

\* a refused registration has been handled: the button is enabled again
C18_Witness ==
    /\ last.op = "registered"
    /\ last.in.status = 500
    /\ ~submitting
    /\ inflight = <<>>

(* C19: once a response with status 200 has been handled, success is true  *)
(* and username, email and password are empty, whatever the fields held    *)
(* when the response arrived.                                              *)
C19_SuccessResetsFields ==
    (last.op = "registered" /\ last.in.status = 200) =>
        (success /\ values = NoValues)

\* all three fields were edited while the request was in flight
C19_Witness ==
    /\ last.op = "registered"
    /\ last.in.status = 200
    /\ last.in.fields.username # last.in.sent.username
    /\ last.in.fields.email # last.in.sent.email
    /\ last.in.fields.password # last.in.sent.password
    /\ last.in.fields.username # ""
    /\ values = NoValues
    /\ success

----------------------------------------------------------------------------
(* C20: the hook never retries by itself. Once the latest fetch has        *)
(* failed, a new fetch is issued only after the url has changed or         *)
(* refetch() has raised reloadFlag; and reloadFlag rises by refetch()      *)
(* alone.                                                                  *)
C20_NoAutomaticRetry ==
    /\ [](reloadFlag + Len(queue) = nRefetch)
    /\ [][(outcome.st = "rejected" /\ Len(fetches') > Len(fetches))
          => (url # fetches[Latest].url \/ reloadFlag # fetches[Latest].flag)]_vars

\* the latest fetch has failed, the consumer has been rendered again with the
\* same url, and no fetch has followed although the hook could issue one
C20_Witness ==
    /\ outcome.st = "rejected"
    /\ error # Null
    /\ last.op = "render"
    /\ mounted
    /\ effectDeps = Deps
    /\ Latest < MaxFetches
    /\ fetches[Latest].stage = "settled"

----------------------------------------------------------------------------
(* C21: once the consumer of the hook is torn down (here: unmounted with   *)
(* the children of a boundary that switched to its fallback, or with the   *)
(* whole root), the completion of a fetch still in flight, whether it      *)
(* succeeds or fails, changes none of data, error and loading.             *)
C21_TornDownIgnoresCompletions ==
    [][\A i \in 1..Latest :
         (~mounted /\ ~mounted' /\ Settles(i)) => UNCHANGED <<data, error, loading>>]_vars

\* the boundary has captured while fetch 1 was in flight, and the fetch has
\* then delivered a payload, which was dropped
C21_Witness ==
    /\ ~mounted
    /\ boundary.hasError
    /\ last = Step("settle", 1, [st |-> "fulfilled"])
    /\ data = Null
    /\ loading

----------------------------------------------------------------------------
(* C22: the boundary holds failure detail only when it has captured a      *)
(* crash. While hasError is false, error and info are null; info is        *)
(* recorded only in a boundary whose hasError is true, which has captured  *)
(* and holds the error.                                                    *)
C22_DetailOnlyWhenCaptured ==
    /\ ~boundary.hasError => (boundary.error = Null /\ boundary.info = Null)
    /\ boundary.info # Null => (boundary.hasError /\ boundary.error # Null /\ captures = 1)

\* the render in which a child threw has ended: componentDidCatch has recorded
\* info for the captured crash
C22_Witness ==
    /\ captures = 1
    /\ boundary.hasError
    /\ boundary.info = ErrorInfo
    /\ last = Step("render", 0, [threw |-> boundary.error, at |-> "child"])

----------------------------------------------------------------------------
(* UserProfile as a function of what its hook returns: the hook is in any  *)
(* combination of data, loading and error, and UserProfile is rendered.    *)

InitView ==
    /\ url = "users/1"
    /\ data \in {Null} \cup {Payload(u, b) : u \in Urls, b \in Bodies}
    /\ loading \in BOOLEAN
    /\ error \in {Null} \cup FetchFailures
    /\ reloadFlag = 0
    /\ queue = <<>>
    /\ effectDeps = <<"users/1", 0>>
    /\ fetches = <<>>
    /\ mounted = TRUE
    /\ unhandled = FALSE
    /\ outcome = Unsettled
    /\ nRefetch = 0
    /\ AppInit
    /\ FormInit
    /\ last = Step("init", 0, NoInput)

\* React renders UserProfile with the state of its hook
RenderProfile ==
    /\ mounted
    /\ view' = UserProfileView(HookState)
    /\ reloadFlag' = ApplyQueue(reloadFlag, queue)
    /\ queue' = <<>>
    /\ last' = Step("render", 0, [returned |-> "children"])
    /\ UNCHANGED <<url, data, loading, error, effectDeps, fetches, mounted, unhandled,
                   outcome, nRefetch, breakUI, rootAlive, boundary,
                   childFault, shown, captures, formVars>>

NextView ==
    \/ RenderProfile
    \/ Retry

SpecView == InitView /\ [][NextView]_vars

(* C23: UserProfile shows one of four views, by fixed precedence: the      *)
(* loading indicator whenever loading is true; otherwise the error alert,  *)
(* with its Retry button, whenever error is not null, whether or not data  *)
(* is held; otherwise nothing when data is null; otherwise the details of  *)
(* the user. refetch is called from the error view only.                   *)
C23_ViewPrecedence ==
    /\ last = Step("render", 0, [returned |-> "children"]) =>
          /\ loading => view = "loading"
          /\ (~loading /\ error # Null) => view = "error"
          /\ (~loading /\ error = Null /\ data = Null) => view = "nothing"
          /\ (~loading /\ error = Null /\ data # Null) => view = "profile"
    /\ view \in {"loading", "error", "nothing", "profile"}
    /\ last.op = "refetch" => view = "error"

\* the error view is shown although the data of an earlier success is held
C23_Witness ==
    /\ last = Step("render", 0, [returned |-> "children"])
    /\ ~loading
    /\ error # Null
    /\ data # Null
    /\ view = "error"

----------------------------------------------------------------------------
(* C24: handleChange on one field changes the value of that field alone,   *)
(* sets the validation error of that field alone to null, and sets         *)
(* serverError to null; the values and errors of the other two fields,     *)
(* success, submitting and the request in flight are as they were.         *)
C24_ChangeTouchesOneField ==
    [][last'.op = "change" =>
         LET name == last'.in.name IN
         /\ values'[name] # values[name]
         /\ name \in DOMAIN errors'
         /\ errors'[name] = Null
         /\ serverError' = Null
         /\ \A f \in Fields \ {name} :
              /\ values'[f] = values[f]
              /\ (f \in DOMAIN errors') = (f \in DOMAIN errors)
              /\ f \in DOMAIN errors => errors'[f] = errors[f]
         /\ UNCHANGED <<success, submitting, inflight>>]_vars

\* the username was corrected after a submission refused for all three fields:
\* the messages of the other two fields are still there
C24_Witness ==
    /\ last = Step("change", 0, [name |-> "username"])
    /\ DOMAIN errors = Fields
    /\ errors["username"] = Null
    /\ errors["email"] = ValidationMessage("email")
    /\ errors["password"] = ValidationMessage("password")
    /\ values.username # ""

----------------------------------------------------------------------------
(* C25: once a field has been changed, serverError stays null until a      *)
(* later submission is started, also when the change is made while a       *)
(* request is in flight: serverError goes from null to a message only      *)
(* when the step before was not a change of a field and the fields hold    *)
(* the values that were submitted.                                         *)
C25_ServerErrorOnlyForSubmitted ==
    [][(serverError = Null /\ serverError' # Null) =>
          (last.op # "change" /\ values = Head(inflight))]_vars

----------------------------------------------------------------------------
(* C26: whenever the hook reports loading = false, error = null and data   *)
(* not null, data is the payload of a fetch for the current url, never     *)
(* that of a fetch for an earlier url.                                     *)
C26_DataIsForCurrentUrl ==
    (~loading /\ error = Null /\ data # Null) => data.url = url

----------------------------------------------------------------------------
(* The hook in a consumer that stays mounted, with the scheduling React    *)
(* and the network provide: a pending effect runs, a queued update is      *)
(* rendered, and every fetch settles.                                      *)

MaxLiveFetches == 2

LiveEffect ==
    /\ Len(fetches) < MaxLiveFetches
    /\ RunEffect

\* the render React schedules for a queued state update
Rerender ==
    /\ queue # <<>>
    /\ Render(url)

NextLive ==
    \/ LiveEffect
    \/ Refetch
    \/ \E u \in Urls : Render(u)
    \/ \E i \in 1..MaxFetches : Respond(i)
    \/ \E i \in 1..MaxFetches : Decoded(i)

SpecLive ==
    /\ Init
    /\ [][NextLive]_vars
    /\ WF_vars(LiveEffect)
    /\ WF_vars(Rerender)
    /\ \A i \in 1..MaxFetches : WF_vars(Respond(i)) /\ WF_vars(Decoded(i))

(* C27: every fetch settling, if calls of refetch() and changes of the url *)
(* stop while the hook is mounted, then from some point on loading is      *)
(* false and data, error and loading are those left by the most recently   *)
(* started fetch, which has settled.                                       *)
C27_EventuallySettled ==
    (<>[][url' = url /\ nRefetch' = nRefetch]_vars) =>
        <>[](/\ ~loading
             /\ outcome.st # "pending"
             /\ Reflects(outcome)
             /\ \A i \in 1..Latest : ~Outstanding(i))

\* a refetch has led to a second fetch, and that fetch has settled
C27_Witness ==
    /\ nRefetch >= 1
    /\ Latest = 2
    /\ fetches[2].flag = 1
    /\ last.op = "settle"
    /\ last.id = 2
    /\ ~loading
    /\ \A i \in 1..Latest : ~Outstanding(i)

====
